---- MODULE Spec2Model ----
(***************************************************************************)
(* Package / proof-of-delivery (POD) lifecycle of the GetALot application. *)
(*                                                                         *)
(* The state is the content of the three tables the lifecycle lives in     *)
(* (packages, pods, audit_logs) plus the requests that are in flight.      *)
(* Every edge function is a sequence of awaited database statements, and   *)
(* the statements of different requests interleave freely.  A statement on *)
(* pods, with the triggers and row-level-security policies that run inside *)
(* it, is one atomic step: all it reads is the row it has locked.  An      *)
(* UPDATE of packages is two steps, because its trigger and its policy     *)
(* read pods without locking it: the checks, then the write and commit.    *)
(* A timestamp is abstracted to the request that produced it ("t3" is the  *)
(* clock reading taken by request 3).                                      *)
(* The id, role and is_active columns of staff_profiles are read-only      *)
(* here; its full_name and email columns are in staff_contacts.            *)
(* auth.users belongs to the identity provider: only the ids it holds are  *)
(* modelled (auth_users), and references into it from audit_logs are not   *)
(* checked.                                                                *)
(* Further specifications exercise one part each: SpecSnapshot the copies  *)
(* a POD keeps of package and staff fields, SpecCollection the collection  *)
(* of packages that are ready for collection, SpecReference the            *)
(* pod_reference column and its sequence, SpecQuery the paginated audit    *)
(* query, SpecAudit the log-audit function with bodies its caller chooses, *)
(* SpecLock direct updates of pods that set locked_at alone, SpecStaff     *)
(* registration and create-staff over auth_users and staff_rows, and       *)
(* SpecTracker the driver location tracker.  Spec leaves the variables of  *)
(* SpecReference, SpecQuery, SpecStaff and SpecTracker at their first      *)
(* value.                                                                  *)
(***************************************************************************)
EXTENDS Integers, Sequences, FiniteSets, Bags, TLC

\* staff_contacts: the full_name and email columns of staff_profiles.
\* pod_reference_seq, pod_references: the sequence and the values of the
\* pod_reference column of pods.  audit_entries, pages: audit_logs as the
\* audit trail page reads it, and the pages the page has loaded.
\* auth_users, staff_rows, signups: the ids in auth.users, the rows of
\* staff_profiles, and the registrations and create-staff requests under
\* way.  tracking .. starts: the fields of DriverLocationService (tracking
\* and errorSubject are the values of its subjects), the
\* position watches and interval timers the browser has active, the
\* getCurrentPosition calls it has not answered, and the number of
\* startTracking calls made.
VARIABLES packages, pods, audit_logs, reqs, staff_contacts,
          pod_reference_seq, pod_references, audit_entries, pages,
          auth_users, staff_rows, signups,
          tracking, errorSubject, watchId, updateInterval, watches, timers,
          pendingPositions, starts

accountVars == <<auth_users, staff_rows, signups>>

trackerVars == <<tracking, errorSubject, watchId, updateInterval, watches,
                 timers, pendingPositions, starts>>

vars == <<packages, pods, audit_logs, reqs, staff_contacts,
          pod_reference_seq, pod_references, audit_entries, pages,
          accountVars, trackerVars>>

\* ------------------------------------------------------------------ bounds
\* Number of requests (edge-function calls, UI flows, direct REST writes)
\* issued in one behaviour.
MaxRequests == 3

\* ------------------------------------------------------------- vocabulary
NULL == "NULL"
Undefined == "undefined"

\* package_status enum
Statuses == {"pending", "notified", "in_transit", "ready_for_collection",
             "collected", "returned"}

\* auth.users ids of the callers.  u_off has a deactivated profile, u_none
\* is authenticated but has no staff profile.
Users == {"u_admin", "u_coll", "u_driver", "u_wh", "u_off", "u_none"}

\* staff_profiles rows, keyed by user_id
staff_profiles ==
  [u \in Users \ {"u_none"} |->
     CASE u = "u_admin"  -> [id |-> "s_admin",  role |-> "admin",      is_active |-> TRUE]
       [] u = "u_coll"   -> [id |-> "s_coll",   role |-> "collection", is_active |-> TRUE]
       [] u = "u_driver" -> [id |-> "s_driver", role |-> "driver",     is_active |-> TRUE]
       [] u = "u_wh"     -> [id |-> "s_wh",     role |-> "warehouse",  is_active |-> TRUE]
       [] u = "u_off"    -> [id |-> "s_off",    role |-> "collection", is_active |-> FALSE]]

\* full_name and email of the staff_profiles rows when a behaviour starts
InitialContacts ==
  [u \in DOMAIN staff_profiles |->
     [full_name |-> "name-" \o u, email |-> u \o "@getalot.io"]]

\* Packages under contention
PackageIds == {"p1"}

\* COALESCE(auth.uid(), '00000000-0000-0000-0000-000000000000')
PlaceholderUid == "00000000"

Now(r) == "t" \o ToString(r)
PodId(i) == "pod" \o ToString(i)
PdfUrl(r) == "pdf" \o ToString(r)
PdfPath(r) == "pods/pdf" \o ToString(r)

\* ------------------------------------------------------------ row helpers
\* SET clause applied to a row: the named columns change, the rest stay.
Merge(row, set) ==
  [f \in DOMAIN row |-> IF f \in DOMAIN set THEN set[f] ELSE row[f]]

AuditRow(action, entity_type, entity_id, performed_by) ==
  [action |-> action, entity_type |-> entity_type,
   entity_id |-> entity_id, performed_by |-> performed_by]

\* SELECT ... FROM pods WHERE package_id = p
PodsOf(p) == {i \in DOMAIN pods : pods[i].package_id = p}

\* EXISTS (SELECT 1 FROM pods WHERE package_id = p AND is_locked = true)
HasLockedPod(p) == \E i \in PodsOf(p) : pods[i].is_locked

\* auth.uid() of a statement: the caller for a client (anon key + JWT)
\* statement, NULL for a service-role statement of an edge function.
ServiceRole == NULL

ActiveStaff(uid) ==
  uid \in DOMAIN staff_profiles /\ staff_profiles[uid].is_active

RoleOf(uid) == IF uid \in DOMAIN staff_profiles THEN staff_profiles[uid].role ELSE NULL

\* ------------------------------------------------------------------ rows
\* packages row at creation: status pending, or notified when the receiver
\* e-mail went out (003:9-20, part_002 columns, 005:147 pod_id)
NewPackage(p, st) ==
  [id |-> p, reference |-> "PKG-" \o p, status |-> st,
   receiver_email |-> "a@x.io", notes |-> NULL,
   picked_up_by |-> NULL, picked_up_at |-> NULL, collected_by |-> NULL,
   pod_id |-> NULL, updated_at |-> "t0"]

\* ------------------------------------------- database: packages statements
\* The packages table without its PACKAGE_LOCKED trigger
prevent_package_modification_when_locked_off(old) == FALSE

\* BEFORE UPDATE trigger: TRUE when it raises PACKAGE_LOCKED.  Its own
\* audit insert is part of the aborted statement and is rolled back with it.
prevent_package_modification_when_locked(old) == HasLockedPod(old.id)

\* BEFORE UPDATE trigger: new.updated_at := NOW()
update_packages_updated_at(new, now) == [new EXCEPT !.updated_at = now]

\* AFTER INSERT/UPDATE trigger: one row '<table>_<op>' attributed to
\* COALESCE(auth.uid(), placeholder)
audit_table_changes(table, op, id, uid) ==
  AuditRow(table \o "_" \o op, table, id,
           IF uid = ServiceRole THEN PlaceholderUid ELSE uid)

\* Permissive UPDATE policies on packages are OR-ed: USING over the old row
rls_packages_update_using(uid, old) ==
  /\ ActiveStaff(uid)
  /\ \/ RoleOf(uid) \in {"warehouse", "admin", "driver"}
     \/ RoleOf(uid) = "driver" /\ old.status \in {"pending", "notified"}
     \/ RoleOf(uid) = "collection" /\ old.status = "in_transit"
     \/ RoleOf(uid) = "collection"
          /\ old.status \in {"pending", "notified", "ready_for_collection"}

\* ... and WITH CHECK over the new row
rls_packages_update_check(uid, new) ==
  \/ ~HasLockedPod(new.id)
  \/ ActiveStaff(uid) /\ RoleOf(uid) = "driver" /\ new.status = "in_transit"
  \/ ActiveStaff(uid) /\ RoleOf(uid) = "collection"
       /\ new.status = "ready_for_collection"
  \/ ActiveStaff(uid) /\ RoleOf(uid) = "collection" /\ new.status = "collected"

\* UPDATE packages SET set WHERE id = p, issued with auth.uid() = uid, up to
\* the point where the row is written: the row is found and locked, the
\* policies and the BEFORE UPDATE triggers run.  error: NULL, or why no row
\* will be written.
PackagesUpdate(p, set, uid, now) ==
  LET old == packages[p]
      new == update_packages_updated_at(Merge(old, set), now)
  IN  IF uid # ServiceRole /\ ~rls_packages_update_using(uid, old)
        THEN [error |-> "PGRST116"]
      ELSE IF prevent_package_modification_when_locked(old)
        THEN [error |-> "PACKAGE_LOCKED"]
      ELSE IF uid # ServiceRole /\ ~rls_packages_update_check(uid, new)
        THEN [error |-> "RLS"]
      ELSE [error |-> NULL]

\* The rest of that statement: the new row version, the AFTER UPDATE audit
\* row, the commit.  The triggers and policies read pods in the statement's
\* own snapshot and take no lock on the pods row, so under READ COMMITTED an
\* UPDATE of pods may commit between PackagesUpdate and PackagesCommit.
PackagesCommit(p, set, uid, now) ==
  [row   |-> update_packages_updated_at(Merge(packages[p], set), now),
   audit |-> <<audit_table_changes("packages", "UPDATED", p, uid)>>]

\* ----------------------------------------------- database: pods statements
\* The pods table without its unique constraint
unique_package_pod_off(package_id) == FALSE

\* CONSTRAINT unique_package_pod UNIQUE (package_id): TRUE when the insert
\* is refused
unique_package_pod(package_id) == PodsOf(package_id) # {}

\* INSERT INTO pods ... RETURNING *, by the service role
PodsInsert(row, uid) ==
  IF unique_package_pod(row.package_id)
    THEN [error |-> "23505", pods |-> pods, id |-> NULL, audit |-> <<>>]
    ELSE LET id == PodId(Len(pods) + 1)
         IN  [error |-> NULL,
              pods |-> Append(pods, [row EXCEPT !.id = id]),
              id |-> id,
              audit |-> <<audit_table_changes("pods", "CREATED", id, uid)>>]

\* UPDATE policy "Update only unlocked PODs"
rls_pods_update_using(uid, old) == ~old.is_locked /\ ActiveStaff(uid)

rls_pods_update_check(uid, new) ==
  \/ ~new.is_locked
  \/ new.is_locked /\ new.locked_at # NULL

\* BEFORE UPDATE trigger: raise is TRUE when it raises POD_LOCKED, row is
\* the new it returns otherwise
prevent_pod_modification(old, new, now) ==
  [raise |-> old.is_locked,
   row   |-> IF new.is_locked /\ new.locked_at = NULL
               THEN [new EXCEPT !.locked_at = now] ELSE new]

\* AFTER UPDATE trigger
audit_pod_changes(old, new, uid) ==
  LET by == IF uid = ServiceRole THEN new.staff_id ELSE uid
  IN  (IF new.is_locked /\ ~old.is_locked
         THEN <<AuditRow("POD_LOCKED", "pod", new.id, by)>> ELSE <<>>)
      \o
      (IF new.pdf_url # NULL /\ old.pdf_url = NULL
         THEN <<AuditRow("POD_PDF_GENERATED", "pod", new.id, by)>> ELSE <<>>)

\* The pods table with its UPDATE policy and BEFORE UPDATE trigger missing
PodsUpdateUnguarded(i, unlockedOnly, set, uid, now) ==
  LET old == pods[i]
      new == Merge(old, set)
  IN  IF unlockedOnly /\ old.is_locked
        THEN [error |-> "PGRST116", row |-> old, audit |-> <<>>]
        ELSE [error |-> NULL, row |-> new, audit |-> audit_pod_changes(old, new, uid)]

\* UPDATE pods SET set WHERE id = pods[i].id [AND is_locked = false],
\* issued with auth.uid() = uid
PodsUpdate(i, unlockedOnly, set, uid, now) ==
  LET old == pods[i]
      trg == prevent_pod_modification(old, Merge(old, set), now)
      new == trg.row
  IN  IF \/ unlockedOnly /\ old.is_locked
         \/ uid # ServiceRole /\ ~rls_pods_update_using(uid, old)
        THEN [error |-> "PGRST116", row |-> old, audit |-> <<>>]
      ELSE IF trg.raise
        THEN [error |-> "POD_LOCKED", row |-> old, audit |-> <<>>]
      ELSE IF uid # ServiceRole /\ ~rls_pods_update_check(uid, new)
        THEN [error |-> "RLS", row |-> old, audit |-> <<>>]
      ELSE [error |-> NULL, row |-> new, audit |-> audit_pod_changes(old, new, uid)]

PodIndex(id) == CHOOSE i \in DOMAIN pods : pods[i].id = id

\* INSERT INTO audit_logs of the rows in order; the table is a bag of rows
RECURSIVE AuditInsert(_, _)
AuditInsert(log, rows) ==
  IF rows = <<>> THEN log
  ELSE AuditInsert(log (+) SetToBag({Head(rows)}), Tail(rows))

\* ------------------------------------------------- database: DELETE, audit
\* DELETE policy "PODs cannot be deleted": USING (false)
rls_pods_delete_using(uid, old) == FALSE

\* BEFORE DELETE trigger on pods: it always raises POD_DELETE_DENIED, and
\* the POD_DELETE_ATTEMPT row it inserted first is undone with the statement
prevent_pod_deletion(old) == TRUE

\* The pods table with its DELETE policy and BEFORE DELETE trigger missing
PodsDeleteUnguarded(i, uid) == [error |-> NULL, deleted |-> TRUE]

\* DELETE FROM pods WHERE id = pods[i].id, issued with auth.uid() = uid.
\* A row the policy hides is not deleted and is no error.
PodsDelete(i, uid) ==
  IF uid # ServiceRole /\ ~rls_pods_delete_using(uid, pods[i])
    THEN [error |-> NULL, deleted |-> FALSE]
  ELSE IF prevent_pod_deletion(pods[i])
    THEN [error |-> "POD_DELETE_DENIED", deleted |-> FALSE]
  ELSE [error |-> NULL, deleted |-> TRUE]

\* DELETE policy "No direct package deletion"
rls_packages_delete_using(uid, old) ==
  ActiveStaff(uid) /\ RoleOf(uid) = "admin" /\ ~HasLockedPod(old.id)

\* BEFORE DELETE trigger on packages: TRUE when it raises
\* PACKAGE_DELETE_DENIED, undoing the audit row it inserted first
prevent_package_deletion_when_locked(old) == HasLockedPod(old.id)

\* pods.package_id REFERENCES packages(id), without ON DELETE: TRUE when
\* the delete is refused
pods_package_id_fkey(old) == PodsOf(old.id) # {}

\* DELETE FROM packages WHERE id = p, issued with auth.uid() = uid
PackagesDelete(p, uid) ==
  IF uid # ServiceRole /\ ~rls_packages_delete_using(uid, packages[p])
    THEN [error |-> NULL, deleted |-> FALSE]
  ELSE IF prevent_package_deletion_when_locked(packages[p])
    THEN [error |-> "PACKAGE_DELETE_DENIED", deleted |-> FALSE]
  ELSE IF pods_package_id_fkey(packages[p])
    THEN [error |-> "23503", deleted |-> FALSE]
  ELSE [error |-> NULL, deleted |-> TRUE]

\* audit_logs with an UPDATE / a DELETE policy that admits active staff
rls_audit_logs_open(uid, row) == ActiveStaff(uid)

\* UPDATE policy "Audit logs cannot be updated": USING (false)
rls_audit_logs_update_using(uid, row) == FALSE

\* DELETE policy "Audit logs cannot be deleted": USING (false)
rls_audit_logs_delete_using(uid, row) == FALSE

\* UPDATE audit_logs SET set, without a WHERE, issued with auth.uid() = uid:
\* the table afterwards
AuditLogsUpdate(set, uid) ==
  LET hit  == {row \in BagToSet(audit_logs) :
                 uid = ServiceRole \/ rls_audit_logs_update_using(uid, row)}
      Set(row) == Merge(row, set)
  IN  IF hit = {} THEN audit_logs
      ELSE [row \in BagToSet(audit_logs) \ hit |-> audit_logs[row]]
           (+) BagOfAll(Set, [row \in hit |-> audit_logs[row]])

\* DELETE FROM audit_logs, without a WHERE, issued with auth.uid() = uid:
\* the table afterwards
AuditLogsDelete(uid) ==
  LET hit == {row \in BagToSet(audit_logs) :
                uid = ServiceRole \/ rls_audit_logs_delete_using(uid, row)}
  IN  IF hit = {} THEN audit_logs
      ELSE [row \in BagToSet(audit_logs) \ hit |-> audit_logs[row]]

\* ---------------------------------------------------------------- requests
Requests == 1..MaxRequests

NoBody == [status |-> Undefined, notes |-> Undefined, receiver_email |-> Undefined]

NoSnap ==
  [status |-> NULL, reference |-> NULL, receiver_email |-> NULL, notes |-> NULL,
   staff_name |-> NULL, staff_email |-> NULL]

\* A request slot.  kind: the handler it is in; pc: the statement it is
\* about to issue; body, hasPdf: what the caller sent; snap: the package row
\* the handler read; result: the "error" of the response, or its HTTP
\* status when it succeeded; ui: issued by the collection-confirm page.
\* lockedAtStart, lockedAtWrite, applied record, for the properties below,
\* whether the package had a locked POD when the request arrived and when
\* its package UPDATE ran, and whether that UPDATE wrote the row; for a
\* client's own statement, matched: rows met its WHERE before the policies
\* were applied, and applied: it changed the table.
Idle ==
  [kind |-> NULL, pc |-> "idle", caller |-> NULL, pkg |-> NULL, pod |-> NULL,
   body |-> NoBody, hasPdf |-> FALSE, snap |-> NoSnap, result |-> NULL,
   ui |-> FALSE, lockedAtStart |-> FALSE, lockedAtWrite |-> FALSE,
   applied |-> FALSE, matched |-> FALSE, email_sent |-> FALSE]

\* The row lock an UPDATE of packages holds from PackagesUpdate to
\* PackagesCommit: a second UPDATE of the same row waits for it
RowLocked(p) ==
  \E r \in Requests :
    /\ reqs[r].pkg = p
    /\ reqs[r].pc \in {"up_commit", "dp_commit", "cp_commit", "cc_commit"}

\* Requests are issued in slot order
CanIssue(r) == reqs[r].pc = "idle" /\ (IF r = 1 THEN TRUE ELSE reqs[r - 1].pc # "idle")

Respond(rec, res) ==
  [rec EXCEPT !.pc = "done", !.result = res, !.body = NoBody, !.snap = NoSnap]

\* Profile lookup and is_active check every handler starts with; NULL when
\* the caller passes
AuthError(u) ==
  IF u \notin DOMAIN staff_profiles THEN "Staff profile not found"
  ELSE IF ~staff_profiles[u].is_active THEN "Staff account is deactivated"
  ELSE NULL

\* ----------------------------------------------------------- update-package
\* /^[^\s@]+@[^\s@]+\.[^\s@]+$/ on the addresses a caller sends
EmailValid(e) == e \in {"B@X.IO", "b@x.io", "a@x.io"}

\* receiver_email.toLowerCase().trim()
NormalizeEmail(e) == IF e = "B@X.IO" THEN "b@x.io" ELSE e

\* notes?.trim() || null
TrimOrNull(n) == CASE n = " n2 " -> "n2" [] n = "  " -> NULL [] OTHER -> n

\* The request bodies a caller sends to update-package
UpdateBodies ==
  {[NoBody EXCEPT !.status = s] : s \in {"pending", "collected"}}
  \cup {[NoBody EXCEPT !.receiver_email = "not-an-email"],
        [status |-> "returned", notes |-> " n2 ", receiver_email |-> "B@X.IO"]}

\* updateData as the handler builds it
UpdateData(body, u, now) ==
  LET fields ==
        {"updated_at"}
        \cup (IF body.status # Undefined THEN {"status"} ELSE {})
        \cup (IF body.status = "collected" THEN {"collected_by"} ELSE {})
        \cup (IF body.notes # Undefined THEN {"notes"} ELSE {})
        \cup (IF body.receiver_email # Undefined THEN {"receiver_email"} ELSE {})
  IN  [f \in fields |->
         CASE f = "updated_at"     -> now
           [] f = "status"         -> body.status
           [] f = "collected_by"   -> u
           [] f = "notes"          -> TrimOrNull(body.notes)
           [] f = "receiver_email" -> NormalizeEmail(body.receiver_email)]

\* From the authorization header to the lock check and the email validation
UpdatePackageStart(r, u, p, body) ==
  LET rec == [Idle EXCEPT !.kind = "update-package", !.caller = u, !.pkg = p,
                          !.lockedAtStart = HasLockedPod(p)]
  IN  /\ CanIssue(r)
      /\ UNCHANGED <<packages, pods>>
      /\ IF AuthError(u) # NULL
           THEN /\ reqs' = [reqs EXCEPT ![r] = Respond(rec, AuthError(u))]
                /\ UNCHANGED audit_logs
         ELSE IF RoleOf(u) \notin {"warehouse", "admin", "collection"}
           THEN /\ reqs' = [reqs EXCEPT ![r] =
                              Respond(rec, "Insufficient permissions to update packages")]
                /\ UNCHANGED audit_logs
         ELSE IF HasLockedPod(p)
           THEN /\ audit_logs' = AuditInsert(audit_logs,
                     <<AuditRow("PACKAGE_UPDATE_DENIED", "package", p, u)>>)
                /\ reqs' = [reqs EXCEPT ![r] = Respond(rec, "Package is locked")]
         ELSE IF body.receiver_email # Undefined /\ ~EmailValid(body.receiver_email)
           THEN /\ reqs' = [reqs EXCEPT ![r] = Respond(rec, "Invalid email format")]
                /\ UNCHANGED audit_logs
         ELSE /\ reqs' = [reqs EXCEPT ![r] = [rec EXCEPT !.pc = "up_update", !.body = body]]
              /\ UNCHANGED audit_logs

\* The UPDATE up to its row write; its error is answered with a 500
UpdatePackageWrite(r) ==
  LET rec == reqs[r]
      res == PackagesUpdate(rec.pkg, UpdateData(rec.body, rec.caller, Now(r)),
                            ServiceRole, Now(r))
      at  == [rec EXCEPT !.lockedAtWrite = HasLockedPod(rec.pkg)]
  IN  /\ rec.pc = "up_update"
      /\ ~RowLocked(rec.pkg)
      /\ UNCHANGED <<packages, pods, audit_logs>>
      /\ reqs' = [reqs EXCEPT ![r] =
                    IF res.error # NULL THEN Respond(at, "Failed to update package")
                    ELSE [at EXCEPT !.pc = "up_commit"]]

\* The row write, then the PACKAGE_UPDATED insert and the response
UpdatePackageCommit(r) ==
  LET rec == reqs[r]
      res == PackagesCommit(rec.pkg, UpdateData(rec.body, rec.caller, Now(r)),
                            ServiceRole, Now(r))
  IN  /\ rec.pc = "up_commit"
      /\ UNCHANGED pods
      /\ packages' = [packages EXCEPT ![rec.pkg] = res.row]
      /\ audit_logs' = AuditInsert(audit_logs, res.audit \o
           <<AuditRow("PACKAGE_UPDATED", "package", rec.pkg, rec.caller)>>)
      /\ reqs' = [reqs EXCEPT ![r] = Respond([rec EXCEPT !.applied = TRUE], "200")]

\* ------------------------------------------------------------ driver-pickup
DriverPickupStart(r, u, p) ==
  LET rec == [Idle EXCEPT !.kind = "driver-pickup", !.caller = u, !.pkg = p,
                          !.lockedAtStart = HasLockedPod(p)]
      err == IF AuthError(u) # NULL THEN AuthError(u)
             ELSE IF RoleOf(u) \notin {"driver", "admin"}
               THEN "Only drivers and admins can pick up packages"
             ELSE IF packages[p].status \notin {"pending", "notified"}
               THEN "Invalid package status for pickup"
             ELSE NULL
  IN  /\ CanIssue(r)
      /\ UNCHANGED <<packages, pods, audit_logs>>
      /\ reqs' = [reqs EXCEPT ![r] =
                    IF err # NULL THEN Respond(rec, err)
                    ELSE [rec EXCEPT !.pc = "dp_update"]]

\* A pickup that records the status only
PickupDataStatusOnly(u, now) ==
  [status |-> "in_transit", updated_at |-> now]

\* SET clause of the pickup
PickupData(u, now) ==
  [status |-> "in_transit", picked_up_by |-> u, picked_up_at |-> now,
   updated_at |-> now]

\* The UPDATE up to its row write; its error is answered with a 500
DriverPickupWrite(r) ==
  LET rec == reqs[r]
      res == PackagesUpdate(rec.pkg, PickupData(rec.caller, Now(r)), ServiceRole, Now(r))
      at  == [rec EXCEPT !.lockedAtWrite = HasLockedPod(rec.pkg)]
  IN  /\ rec.pc = "dp_update"
      /\ ~RowLocked(rec.pkg)
      /\ UNCHANGED <<packages, pods, audit_logs>>
      /\ reqs' = [reqs EXCEPT ![r] =
                    IF res.error # NULL THEN Respond(at, "Failed to update package")
                    ELSE [at EXCEPT !.pc = "dp_commit"]]

\* What becomes of the "Package On the Way" e-mail: the mail API accepts
\* it, the API answers with an error or the call throws, or RESEND_API_KEY
\* is not set
EmailOutcomes == {"sent", "failed", "not configured"}

\* A pickup that writes the notification entry whatever became of the mail
NotificationAlways(email, rec) ==
  <<AuditRow("PACKAGE_IN_TRANSIT_NOTIFICATION", "package", rec.pkg, rec.caller)>>

\* if (emailSent) insert PACKAGE_IN_TRANSIT_NOTIFICATION
NotificationEntry(email, rec) ==
  IF email = "sent"
    THEN <<AuditRow("PACKAGE_IN_TRANSIT_NOTIFICATION", "package", rec.pkg, rec.caller)>>
    ELSE <<>>

\* The row write, the e-mail, the audit inserts and the response, which
\* carries email_sent
DriverPickupCommit(r) ==
  LET rec == reqs[r]
      res == PackagesCommit(rec.pkg, PickupData(rec.caller, Now(r)), ServiceRole, Now(r))
  IN  /\ rec.pc = "dp_commit"
      /\ UNCHANGED pods
      /\ packages' = [packages EXCEPT ![rec.pkg] = res.row]
      /\ \E email \in EmailOutcomes :
           /\ audit_logs' = AuditInsert(audit_logs, res.audit \o
                <<AuditRow("PACKAGE_PICKED_UP", "package", rec.pkg, rec.caller)>> \o
                NotificationEntry(email, rec))
           /\ reqs' = [reqs EXCEPT ![r] =
                         Respond([rec EXCEPT !.applied = TRUE,
                                             !.email_sent = (email = "sent")], "200")]

\* ------------------------------------------------------------- complete-pod
\* The body of Start, shared by a direct call and by the call the
\* collection-confirm page makes: authorization and the package read
CompletePodBegin(rec, u, p) ==
  LET err == IF AuthError(u) # NULL THEN AuthError(u)
             ELSE IF RoleOf(u) \notin {"collection", "warehouse", "admin"}
               THEN "Insufficient permissions to complete PODs"
             ELSE NULL
      at  == [rec EXCEPT !.kind = "complete-pod", !.caller = u, !.pkg = p]
  IN  IF err # NULL THEN Respond(at, err)
      ELSE [at EXCEPT !.pc = "cp_lookup",
                      !.snap = [status |-> packages[p].status,
                                reference |-> packages[p].reference,
                                staff_name |-> staff_contacts[u].full_name,
                                staff_email |-> staff_contacts[u].email,
                                receiver_email |-> packages[p].receiver_email,
                                notes |-> packages[p].notes]]

CompletePodStart(r, u, p) ==
  /\ CanIssue(r)
  /\ reqs' = [reqs EXCEPT ![r] = CompletePodBegin(Idle, u, p)]
  /\ UNCHANGED <<packages, pods, audit_logs>>

\* complete-pod without its existing-POD lookup
ExistingPodUnchecked(p) == FALSE

\* select id, pod_reference from pods where package_id = ... .single():
\* a row only when exactly one matches
ExistingPod(p) == Cardinality(PodsOf(p)) = 1

\* The duplicate lookup and the check of the status read before it
CompletePodLookup(r) ==
  LET rec == reqs[r]
  IN  /\ rec.pc = "cp_lookup"
      /\ UNCHANGED <<packages, pods>>
      /\ IF ExistingPod(rec.pkg)
           THEN /\ audit_logs' = AuditInsert(audit_logs,
                     <<AuditRow("POD_DUPLICATE_ATTEMPT", "package", rec.pkg, rec.caller)>>)
                /\ reqs' = [reqs EXCEPT ![r] =
                              Respond(rec, "POD already exists for this package")]
         ELSE IF rec.snap.status = "collected"
           THEN /\ reqs' = [reqs EXCEPT ![r] = Respond(rec, "Package already collected")]
                /\ UNCHANGED audit_logs
         ELSE /\ reqs' = [reqs EXCEPT ![r] = [rec EXCEPT !.pc = "cp_insert"]]
              /\ UNCHANGED audit_logs

\* A POD row that copies nothing from the package and the staff profile
NewPodWithoutCopies(rec) ==
  [id |-> NULL, package_id |-> rec.pkg, package_reference |-> NULL,
   receiver_email |-> NULL, staff_id |-> staff_profiles[rec.caller].id,
   staff_name |-> NULL, staff_email |-> NULL, is_locked |-> FALSE,
   locked_at |-> NULL, pdf_url |-> NULL, pdf_path |-> NULL,
   pdf_generated_at |-> NULL]

\* The row complete-pod inserts
NewPod(rec) ==
  [id |-> NULL, package_id |-> rec.pkg, package_reference |-> rec.snap.reference,
   receiver_email |-> rec.snap.receiver_email,
   staff_id |-> staff_profiles[rec.caller].id,
   staff_name |-> rec.snap.staff_name, staff_email |-> rec.snap.staff_email,
   is_locked |-> FALSE,
   locked_at |-> NULL, pdf_url |-> NULL, pdf_path |-> NULL,
   pdf_generated_at |-> NULL]

\* The INSERT and, when it went through, the POD_CREATED insert
CompletePodInsert(r) ==
  LET rec == reqs[r]
      res == PodsInsert(NewPod(rec), ServiceRole)
  IN  /\ rec.pc = "cp_insert"
      /\ UNCHANGED packages
      /\ IF res.error # NULL
           THEN /\ reqs' = [reqs EXCEPT ![r] = Respond(rec, "Failed to create POD")]
                /\ UNCHANGED <<pods, audit_logs>>
           ELSE /\ pods' = res.pods
                /\ audit_logs' = AuditInsert(audit_logs, res.audit \o
                     <<AuditRow("POD_CREATED", "pod", res.id, rec.caller)>>)
                /\ reqs' = [reqs EXCEPT ![r] = [rec EXCEPT !.pc = "cp_update", !.pod = res.id]]

\* SET clause of the collection
CollectData(rec) ==
  [status |-> "collected", collected_by |-> rec.caller, pod_id |-> rec.pod]

\* The PACKAGE_COLLECTED insert and the 201 response, whether or not the
\* package UPDATE wrote the row; the page then goes on to lock-pod, with
\* the PDF it could or could not upload
CompletePodRespond(r, at, audit) ==
  /\ audit_logs' = AuditInsert(audit_logs, audit \o
       <<AuditRow("PACKAGE_COLLECTED", "package", at.pkg, at.caller)>>)
  /\ \E pdf \in IF at.ui THEN BOOLEAN ELSE {FALSE} :
       reqs' = [reqs EXCEPT ![r] =
                  IF at.ui
                    THEN [at EXCEPT !.pc = "lp_start", !.result = "201",
                                    !.hasPdf = pdf, !.snap = NoSnap]
                    ELSE Respond(at, "201")]

\* The package UPDATE up to its row write; its error is only logged
CompletePodUpdate(r) ==
  LET rec == reqs[r]
      res == PackagesUpdate(rec.pkg, CollectData(rec), ServiceRole, Now(r))
      at  == [rec EXCEPT !.lockedAtWrite = HasLockedPod(rec.pkg)]
  IN  /\ rec.pc = "cp_update"
      /\ ~RowLocked(rec.pkg)
      /\ UNCHANGED <<packages, pods>>
      /\ IF res.error # NULL
           THEN CompletePodRespond(r, at, <<>>)
           ELSE /\ reqs' = [reqs EXCEPT ![r] = [at EXCEPT !.pc = "cp_commit"]]
                /\ UNCHANGED audit_logs

\* The row write, then the PACKAGE_COLLECTED insert and the 201 response
CompletePodCommit(r) ==
  LET rec == reqs[r]
      res == PackagesCommit(rec.pkg, CollectData(rec), ServiceRole, Now(r))
  IN  /\ rec.pc = "cp_commit"
      /\ UNCHANGED pods
      /\ packages' = [packages EXCEPT ![rec.pkg] = res.row]
      /\ CompletePodRespond(r, [rec EXCEPT !.applied = TRUE], res.audit)

\* ----------------------------------------------------------------- lock-pod
\* lock-pod without its creator-or-admin check
LockPodBeginAnyStaff(rec, u, id, pdf) ==
  LET pod == pods[PodIndex(id)]
      at  == [rec EXCEPT !.kind = "lock-pod", !.caller = u, !.pod = id,
                         !.pkg = pod.package_id, !.hasPdf = pdf]
  IN  IF AuthError(u) # NULL THEN <<Respond(at, AuthError(u)), <<>>>>
      ELSE IF pod.is_locked THEN <<Respond(at, "POD already locked"), <<>>>>
      ELSE <<[at EXCEPT !.pc = "lp_update"], <<>>>>

\* Authorization, the POD read, the is_locked check and the creator check;
\* the second component is the audit row a denial writes
LockPodBegin(rec, u, id, pdf) ==
  LET pod == pods[PodIndex(id)]
      at  == [rec EXCEPT !.kind = "lock-pod", !.caller = u, !.pod = id,
                         !.pkg = pod.package_id, !.hasPdf = pdf]
  IN  IF AuthError(u) # NULL THEN <<Respond(at, AuthError(u)), <<>>>>
      ELSE IF pod.is_locked THEN <<Respond(at, "POD already locked"), <<>>>>
      ELSE IF pod.staff_id # staff_profiles[u].id /\ RoleOf(u) # "admin"
        THEN <<Respond(at, "Unauthorized to lock this POD"),
               <<AuditRow("POD_LOCK_DENIED", "pod", id, u)>>>>
      ELSE <<[at EXCEPT !.pc = "lp_update"], <<>>>>

LockPodStart(r, u, id, pdf) ==
  /\ CanIssue(r)
  /\ reqs' = [reqs EXCEPT ![r] = LockPodBegin(Idle, u, id, pdf)[1]]
  /\ audit_logs' = AuditInsert(audit_logs, LockPodBegin(Idle, u, id, pdf)[2])
  /\ UNCHANGED <<packages, pods>>

\* An updateData that names the pdf fields whether or not the request
\* carries pdf_url
LockDataAllFields(r, pdf) ==
  [is_locked |-> TRUE, locked_at |-> Now(r),
   pdf_url |-> IF pdf THEN PdfUrl(r) ELSE NULL,
   pdf_path |-> IF pdf THEN PdfPath(r) ELSE NULL,
   pdf_generated_at |-> IF pdf THEN Now(r) ELSE NULL]

\* updateData of lock-pod
LockData(r, pdf) ==
  LET fields == {"is_locked", "locked_at"} \cup
                (IF pdf THEN {"pdf_url", "pdf_path", "pdf_generated_at"} ELSE {})
  IN  [f \in fields |->
         CASE f = "is_locked"        -> TRUE
           [] f = "locked_at"        -> Now(r)
           [] f = "pdf_url"          -> PdfUrl(r)
           [] f = "pdf_path"         -> PdfPath(r)
           [] f = "pdf_generated_at" -> Now(r)]

\* The locking UPDATE without its .eq('is_locked', false)
LockUnconditionally == FALSE

\* .eq('is_locked', false) on the locking UPDATE
LockOnlyIfUnlocked == TRUE

\* The conditional UPDATE, the POD_LOCKED insert and the response
LockPodUpdate(r) ==
  LET rec == reqs[r]
      i   == PodIndex(rec.pod)
      res == PodsUpdate(i, LockOnlyIfUnlocked, LockData(r, rec.hasPdf), ServiceRole, Now(r))
      at  == [rec EXCEPT !.applied = (res.error = NULL)]
  IN  /\ rec.pc = "lp_update"
      /\ UNCHANGED packages
      /\ IF res.error = "PGRST116"
           THEN /\ reqs' = [reqs EXCEPT ![r] = Respond(at, "POD was already locked")]
                /\ UNCHANGED <<pods, audit_logs>>
         ELSE IF res.error # NULL
           THEN /\ reqs' = [reqs EXCEPT ![r] = Respond(at, "Failed to lock POD")]
                /\ UNCHANGED <<pods, audit_logs>>
         ELSE /\ pods' = [pods EXCEPT ![i] = res.row]
              /\ audit_logs' = AuditInsert(audit_logs, res.audit \o
                   <<AuditRow("POD_LOCKED", "pod", rec.pod, rec.caller)>>)
              /\ reqs' = [reqs EXCEPT ![r] = Respond(at, "200")]

\* ------------------------------------------- collection-confirm (the page)
\* Step 1 of confirmCollection: the page's own UPDATE of the package,
\* issued with the signed-in user's token, so under row level security
ConfirmCollectionUpdate(r, u, p) ==
  LET rec == [Idle EXCEPT !.kind = "collection-confirm", !.caller = u, !.pkg = p,
                          !.ui = TRUE, !.lockedAtStart = HasLockedPod(p)]
      res == PackagesUpdate(p, [status |-> "collected"], u, Now(r))
      at  == [rec EXCEPT !.lockedAtWrite = HasLockedPod(p)]
  IN  /\ CanIssue(r)
      /\ ~RowLocked(p)
      /\ UNCHANGED <<packages, pods, audit_logs>>
      /\ reqs' = [reqs EXCEPT ![r] =
                    IF res.error # NULL THEN Respond(at, res.error)
                    ELSE [at EXCEPT !.pc = "cc_commit"]]

\* The row write of step 1
ConfirmCollectionCommit(r) ==
  LET rec == reqs[r]
      res == PackagesCommit(rec.pkg, [status |-> "collected"], rec.caller, Now(r))
  IN  /\ rec.pc = "cc_commit"
      /\ UNCHANGED pods
      /\ packages' = [packages EXCEPT ![rec.pkg] = res.row]
      /\ audit_logs' = AuditInsert(audit_logs, res.audit)
      /\ reqs' = [reqs EXCEPT ![r] = [rec EXCEPT !.pc = "cp_start", !.applied = TRUE]]

\* Step 2: podService.completePod calls complete-pod
ConfirmCollectionCompletePod(r) ==
  LET rec == reqs[r]
  IN  /\ rec.pc = "cp_start"
      /\ reqs' = [reqs EXCEPT ![r] =
                    CompletePodBegin([rec EXCEPT !.lockedAtStart = FALSE,
                                                 !.lockedAtWrite = FALSE,
                                                 !.applied = FALSE],
                                     rec.caller, rec.pkg)]
      /\ UNCHANGED <<packages, pods, audit_logs>>

\* Step 3: after the PDF upload, completePod calls lock-pod
ConfirmCollectionLockPod(r) ==
  LET rec == reqs[r]
      beg == LockPodBegin([rec EXCEPT !.lockedAtWrite = FALSE, !.applied = FALSE],
                          rec.caller, rec.pod, rec.hasPdf)
  IN  /\ rec.pc = "lp_start"
      /\ reqs' = [reqs EXCEPT ![r] = beg[1]]
      /\ audit_logs' = AuditInsert(audit_logs, beg[2])
      /\ UNCHANGED <<packages, pods>>

\* ------------------------------------------------- UPDATE on pods by a client
\* What a signed-in client may send as an UPDATE on pods
DirectPodSets(r) ==
  {[is_locked |-> FALSE, locked_at |-> NULL],
   [is_locked |-> TRUE],
   [pdf_url |-> PdfUrl(r)]}

\* An UPDATE on pods with the signed-in user's token: the policies and
\* triggers on pods are all that stand between the client and the row
DirectPodUpdate(r, u, i, set) ==
  LET rec == [Idle EXCEPT !.kind = "pods-update", !.caller = u,
                          !.pod = pods[i].id, !.pkg = pods[i].package_id]
      res == PodsUpdate(i, FALSE, set, u, Now(r))
      at  == [rec EXCEPT !.applied = (res.error = NULL)]
  IN  /\ CanIssue(r)
      /\ UNCHANGED packages
      /\ IF res.error # NULL
           THEN /\ reqs' = [reqs EXCEPT ![r] = Respond(at, res.error)]
                /\ UNCHANGED <<pods, audit_logs>>
           ELSE /\ pods' = [pods EXCEPT ![i] = res.row]
                /\ audit_logs' = AuditInsert(audit_logs, res.audit)
                /\ reqs' = [reqs EXCEPT ![r] = Respond(at, "200")]

\* ------------------------------------- DELETE and audit writes by a client
\* The signed-in users that send statements of their own to the database
DirectIssuers == {"u_admin", "u_coll"}

\* A DELETE on pods with the signed-in user's token
DirectPodDelete(r, u, i) ==
  LET rec == [Idle EXCEPT !.kind = "pods-delete", !.caller = u, !.matched = TRUE,
                          !.pod = pods[i].id, !.pkg = pods[i].package_id]
      res == PodsDelete(i, u)
      at  == [rec EXCEPT !.applied = res.deleted]
  IN  /\ CanIssue(r)
      /\ UNCHANGED <<packages, audit_logs>>
      /\ pods' = IF res.deleted
                   THEN SelectSeq(pods, LAMBDA row : row.id # pods[i].id)
                   ELSE pods
      /\ reqs' = [reqs EXCEPT ![r] =
                    Respond(at, IF res.error # NULL THEN res.error ELSE "204")]

\* A DELETE on packages with the signed-in user's token, for a package that
\* has a POD (a package without one is outside the requests drawn here)
DirectPackageDelete(r, u, p) ==
  LET rec == [Idle EXCEPT !.kind = "packages-delete", !.caller = u, !.pkg = p,
                          !.matched = TRUE,
                          !.lockedAtStart = HasLockedPod(p)]
      res == PackagesDelete(p, u)
  IN  /\ CanIssue(r)
      /\ PodsOf(p) # {}
      /\ ~RowLocked(p)
      /\ ~res.deleted
      /\ UNCHANGED <<packages, pods, audit_logs>>
      /\ reqs' = [reqs EXCEPT ![r] =
                    Respond(rec, IF res.error # NULL THEN res.error ELSE "204")]

\* An UPDATE on audit_logs with the signed-in user's token
DirectAuditUpdate(r, u) ==
  LET rec  == [Idle EXCEPT !.kind = "audit-update", !.caller = u,
                           !.matched = (audit_logs # EmptyBag)]
      logs == AuditLogsUpdate([performed_by |-> PlaceholderUid], u)
  IN  /\ CanIssue(r)
      /\ UNCHANGED <<packages, pods>>
      /\ audit_logs' = logs
      /\ reqs' = [reqs EXCEPT ![r] =
                    Respond([rec EXCEPT !.applied = (logs # audit_logs)], "204")]

\* A DELETE on audit_logs with the signed-in user's token
DirectAuditDelete(r, u) ==
  LET rec  == [Idle EXCEPT !.kind = "audit-delete", !.caller = u,
                           !.matched = (audit_logs # EmptyBag)]
      logs == AuditLogsDelete(u)
  IN  /\ CanIssue(r)
      /\ UNCHANGED <<packages, pods>>
      /\ audit_logs' = logs
      /\ reqs' = [reqs EXCEPT ![r] =
                    Respond([rec EXCEPT !.applied = (logs # audit_logs)], "204")]

\* ---------------------------------------------------------------- log-audit
\* The signed-in users that call log-audit: active staff, a deactivated
\* staff member, and a user without a staff profile
LogAuditCallers == {"u_coll", "u_off", "u_none"}

\* The body the QR panel of a package sends
LogAuditBody(p) ==
  [action |-> "QR_GENERATED", entity_type |-> "package", entity_id |-> p]

\* log-audit: the token is verified, the body is checked for its three
\* fields, the staff profile is read for the metadata only, and the entry
\* is inserted with the service-role client
LogAudit(r, u, body) ==
  LET rec == [Idle EXCEPT !.kind = "log-audit", !.caller = u, !.pkg = body.entity_id]
  IN  /\ CanIssue(r)
      /\ UNCHANGED <<packages, pods>>
      /\ audit_logs' = AuditInsert(audit_logs,
           <<AuditRow(body.action, body.entity_type, body.entity_id, u)>>)
      /\ reqs' = [reqs EXCEPT ![r] = Respond([rec EXCEPT !.applied = TRUE], "201")]

\* ------------------------------------------- UPDATE on staff_profiles
\* UPDATE policy "Admins can update staff profiles", USING and WITH CHECK
rls_staff_profiles_update(uid) ==
  uid \in DOMAIN staff_profiles /\ staff_profiles[uid].role = "admin"

\* The new full_name and email an admin gives a staff member
RenamedContact(u) == [full_name |-> "renamed-" \o u, email |-> u \o "@new.io"]

\* UPDATE staff_profiles SET full_name, email WHERE user_id = target, sent
\* with the signed-in user's token; its AFTER trigger writes the audit row
StaffProfileUpdate(r, u, target) ==
  LET rec == [Idle EXCEPT !.kind = "staff-update", !.caller = u, !.matched = TRUE]
      ok  == rls_staff_profiles_update(u)
  IN  /\ CanIssue(r)
      /\ UNCHANGED <<packages, pods>>
      /\ staff_contacts' = IF ok THEN [staff_contacts EXCEPT ![target] = RenamedContact(target)]
                           ELSE staff_contacts
      /\ audit_logs' = IF ok
                         THEN AuditInsert(audit_logs,
                                <<audit_table_changes("staff_profiles", "UPDATED",
                                                      staff_profiles[target].id, u)>>)
                         ELSE audit_logs
      /\ reqs' = [reqs EXCEPT ![r] = Respond([rec EXCEPT !.applied = ok], "204")]

\* ------------------------------------------------- accounts and tracker
\* The users that register or are created while the system runs
NewUsers == {"n1", "n2", "n3"}

\* A registration or create-staff request that has not started
NoSignup ==
  [kind |-> NULL, pc |-> "idle", caller |-> NULL, role |-> NULL,
   autoAdmin |-> FALSE, result |-> NULL]

\* A row of staff_profiles: the columns the account handling reads
StaffRow(user_id, role, created_by) ==
  [user_id |-> user_id, email |-> user_id \o "@getalot.io", role |-> role,
   created_by |-> created_by]

\* auth.users and staff_profiles of the staff in Users; nobody signing up
InitAccounts ==
  /\ auth_users = Users
  /\ staff_rows = {StaffRow(u, staff_profiles[u].role, NULL) : u \in DOMAIN staff_profiles}
  /\ signups = [n \in NewUsers |-> NoSignup]

\* DriverLocationService as constructed
InitTracker ==
  /\ tracking = FALSE
  /\ errorSubject = NULL
  /\ watchId = NULL
  /\ updateInterval = NULL
  /\ watches = {}
  /\ timers = {}
  /\ pendingPositions = 0
  /\ starts = 0

\* ------------------------------------------------------------ specification
\* The signed-in users that send requests
Callers == {"u_admin", "u_coll", "u_driver", "u_off"}

\* Packages as create-package left them; no POD, no request yet
Init ==
  /\ packages \in [PackageIds ->
                     {NewPackage(p, st) : p \in PackageIds, st \in {"pending", "notified"}}]
  /\ \A p \in PackageIds : packages[p].id = p
  /\ pods = <<>>
  /\ audit_logs = EmptyBag
  /\ reqs = [r \in Requests |-> Idle]
  /\ staff_contacts = InitialContacts
  /\ pod_reference_seq = 0
  /\ pod_references = {}
  /\ audit_entries = {}
  /\ pages = <<>>
  /\ InitAccounts
  /\ InitTracker

\* What a step of the package and POD lifecycle leaves alone
Frame ==
  UNCHANGED <<staff_contacts, pod_reference_seq, pod_references,
              audit_entries, pages, accountVars, trackerVars>>

Next ==
  \/ \E r \in Requests, u \in Callers, p \in PackageIds, body \in UpdateBodies :
       UpdatePackageStart(r, u, p, body) /\ Frame
  \/ \E r \in Requests : UpdatePackageWrite(r) /\ Frame
  \/ \E r \in Requests : UpdatePackageCommit(r) /\ Frame
  \/ \E r \in Requests, u \in Callers, p \in PackageIds : DriverPickupStart(r, u, p) /\ Frame
  \/ \E r \in Requests : DriverPickupWrite(r) /\ Frame
  \/ \E r \in Requests : DriverPickupCommit(r) /\ Frame
  \/ \E r \in Requests, u \in Callers, p \in PackageIds : CompletePodStart(r, u, p) /\ Frame
  \/ \E r \in Requests : CompletePodLookup(r) /\ Frame
  \/ \E r \in Requests : CompletePodInsert(r) /\ Frame
  \/ \E r \in Requests : CompletePodUpdate(r) /\ Frame
  \/ \E r \in Requests : CompletePodCommit(r) /\ Frame
  \/ \E r \in Requests, u \in Callers, i \in DOMAIN pods, pdf \in BOOLEAN :
       LockPodStart(r, u, pods[i].id, pdf) /\ Frame
  \/ \E r \in Requests : LockPodUpdate(r) /\ Frame
  \/ \E r \in Requests, u \in Callers, p \in PackageIds : ConfirmCollectionUpdate(r, u, p) /\ Frame
  \/ \E r \in Requests : ConfirmCollectionCommit(r) /\ Frame
  \/ \E r \in Requests : ConfirmCollectionCompletePod(r) /\ Frame
  \/ \E r \in Requests : ConfirmCollectionLockPod(r) /\ Frame
  \/ \E r \in Requests, u \in Callers, i \in DOMAIN pods :
       \E set \in DirectPodSets(r) : DirectPodUpdate(r, u, i, set) /\ Frame
  \/ \E r \in Requests, u \in DirectIssuers, i \in DOMAIN pods : DirectPodDelete(r, u, i) /\ Frame
  \/ \E r \in Requests, u \in DirectIssuers, p \in PackageIds :
       DirectPackageDelete(r, u, p) /\ Frame
  \/ \E r \in Requests, u \in DirectIssuers : DirectAuditUpdate(r, u) /\ Frame
  \/ \E r \in Requests, u \in DirectIssuers : DirectAuditDelete(r, u) /\ Frame
  \/ \E r \in Requests, u \in LogAuditCallers, p \in PackageIds :
       LogAudit(r, u, LogAuditBody(p)) /\ Frame

Spec == Init /\ [][Next]_vars

\* ------------------------------------------------- specification: snapshots
\* The callers of the requests that create a POD and edit what it copied
SnapshotCallers == {"u_admin", "u_coll"}

\* What a step of SnapshotNext leaves alone
SnapshotFrame ==
  UNCHANGED <<pod_reference_seq, pod_references, audit_entries, pages,
              accountVars, trackerVars>>

\* complete-pod, update-package, and an admin's edit of a staff profile
SnapshotNext ==
  \/ \E r \in Requests, u \in SnapshotCallers, p \in PackageIds, body \in UpdateBodies :
       UpdatePackageStart(r, u, p, body) /\ Frame
  \/ \E r \in Requests : UpdatePackageWrite(r) /\ Frame
  \/ \E r \in Requests : UpdatePackageCommit(r) /\ Frame
  \/ \E r \in Requests, u \in SnapshotCallers, p \in PackageIds :
       CompletePodStart(r, u, p) /\ Frame
  \/ \E r \in Requests : CompletePodLookup(r) /\ Frame
  \/ \E r \in Requests : CompletePodInsert(r) /\ Frame
  \/ \E r \in Requests : CompletePodUpdate(r) /\ Frame
  \/ \E r \in Requests : CompletePodCommit(r) /\ Frame
  \/ \E r \in Requests, u \in SnapshotCallers, target \in SnapshotCallers :
       StaffProfileUpdate(r, u, target) /\ SnapshotFrame

SpecSnapshot == Init /\ [][SnapshotNext]_vars

\* ------------------------------------------- specification: pod_reference
\* Number of INSERTs on pods issued in one behaviour
MaxInserts == 6

\* Width of the sequence part of a reference
PadLength == 4

\* Values of pod_reference_seq a behaviour starts from: a fresh database,
\* and one that has issued almost all four-digit numbers
StartValues == {0, 9995}

\* EXTRACT(YEAR FROM CURRENT_DATE)::TEXT; all references of a behaviour are
\* generated in one year
year_part == "2025"

\* lpad(str, len, fill) of PostgreSQL for a fill of one character: a string
\* longer than len is cut to its first len characters
RECURSIVE LPAD(_, _, _)
LPAD(str, len, fill) ==
  IF Len(str) >= len THEN SubSeq(str, 1, len)
                     ELSE LPAD(fill \o str, len, fill)

\* generate_pod_reference() for the sequence value n that nextval returned
generate_pod_reference(n) ==
  "POD-" \o year_part \o "-" \o LPAD(ToString(n), PadLength, "0")

\* pods_pod_reference_key: UNIQUE (pod_reference)
pods_pod_reference_key(ref) == ref \notin pod_references

\* The database after n INSERTs on pods that all committed
InitReference ==
  /\ packages = [p \in PackageIds |-> NewPackage(p, "pending")]
  /\ pods = <<>>
  /\ audit_logs = EmptyBag
  /\ reqs = [r \in Requests |-> Idle]
  /\ staff_contacts = InitialContacts
  /\ pod_reference_seq \in StartValues
  /\ pod_references = {generate_pod_reference(n) : n \in 1 .. pod_reference_seq}
  /\ audit_entries = {}
  /\ pages = <<>>
  /\ InitAccounts
  /\ InitTracker

ReferenceFrame ==
  UNCHANGED <<packages, pods, audit_logs, reqs, staff_contacts,
              audit_entries, pages, accountVars, trackerVars>>

\* An INSERT may still be issued
CanInsert == \E s \in StartValues : pod_reference_seq - s \in 0 .. MaxInserts - 1

\* INSERT INTO pods without pod_reference: the column default draws the next
\* sequence value, then the UNIQUE constraint is checked.  A failed INSERT
\* does not give the sequence value back.
InsertPod ==
  /\ CanInsert
  /\ LET n   == pod_reference_seq + 1
         ref == generate_pod_reference(n)
     IN  /\ pod_reference_seq' = n
         /\ pod_references' = IF pods_pod_reference_key(ref)
                                THEN pod_references \cup {ref}
                                ELSE pod_references
  /\ ReferenceFrame

\* An INSERT that loses the race for the package: its default has been
\* evaluated when unique_package_pod rejects the row
InsertPodRejected ==
  /\ CanInsert
  /\ pod_reference_seq' = pod_reference_seq + 1
  /\ pod_references' = pod_references
  /\ ReferenceFrame

ReferenceNext ==
  \/ InsertPod
  \/ InsertPodRejected

SpecReference == InitReference /\ [][ReferenceNext]_vars

\* --------------------------------------------- specification: audit query
\* Number of pages the audit trail page loads in one behaviour
MaxPages == 2

\* limit of a query that names none
DefaultLimit == 50

\* created_at: a calendar day and an instant within it
At(day, tick) == [day |-> day, tick |-> tick]

\* a is later than b
Later(a, b) == a.day > b.day \/ (a.day = b.day /\ a.tick > b.tick)

\* A row of audit_logs as the client reads it
AuditEntry(id, row, at) ==
  [id |-> id, action |-> row.action, entity_type |-> row.entity_type,
   entity_id |-> row.entity_id, performed_by |-> row.performed_by,
   created_at |-> at]

\* The entries of a pick-up, of a lock that stored the PDF (the trigger
\* writes both in one transaction, so both carry its NOW()), and of a
\* log-audit call
AuditTrail ==
  LET lock == audit_pod_changes(
                [id |-> PodId(1), staff_id |-> "u_coll", is_locked |-> FALSE,
                 pdf_url |-> NULL],
                [id |-> PodId(1), staff_id |-> "u_coll", is_locked |-> TRUE,
                 pdf_url |-> PdfUrl(1)],
                ServiceRole)
  IN  << AuditEntry("a1", AuditRow("PACKAGE_PICKED_UP", "package", "p1", "u_driver"),
                    At(1, 1)),
         AuditEntry("a2", lock[1], At(2, 1)),
         AuditEntry("a3", lock[2], At(2, 1)),
         AuditEntry("a4", AuditRow("QR_GENERATED", "package", "p1", "u_coll"),
                    At(3, 1)) >>

\* audit_logs after the first n of these entries were written
AuditTrails ==
  {{AuditTrail[k] : k \in 1 .. n} : n \in {1, 3, 4}}

\* An optional number or day of the filters is the set of its values: {}
\* when the caller left it out
Some(v) == {v}
ValueOf(opt) == CHOOSE v \in opt : TRUE

NoFilters ==
  [packageId |-> Undefined, staffId |-> Undefined, action |-> Undefined,
   entityType |-> Undefined, dateFrom |-> {}, dateTo |-> {},
   search |-> Undefined, limit |-> {}, offset |-> {}]

\* The filters the audit trail page and the package pages send, each with
\* and without limit and offset
QueryFilters ==
  LET base == {NoFilters,
               [NoFilters EXCEPT !.packageId = PodId(1)],
               [NoFilters EXCEPT !.staffId = "u_coll"],
               [NoFilters EXCEPT !.action = "POD_LOCKED"],
               [NoFilters EXCEPT !.entityType = "pod"],
               [NoFilters EXCEPT !.dateFrom = Some(2), !.dateTo = Some(2)]}
  IN  {[f EXCEPT !.limit = l, !.offset = o] :
         f \in base, l \in {{}, Some(1), Some(2)},
         o \in {{}, Some(0), Some(1), Some(2)}}

\* The .eq / .gte / .lt conditions of loadAuditLogs.  dateFrom and dateTo
\* are days; created_at < dateTo + 1 day keeps the whole of day dateTo.
MatchesFilters(e, filters) ==
  /\ filters.packageId  = Undefined \/ e.entity_id    = filters.packageId
  /\ filters.staffId    = Undefined \/ e.performed_by = filters.staffId
  /\ filters.action     = Undefined \/ e.action       = filters.action
  /\ filters.entityType = Undefined \/ e.entity_type  = filters.entityType
  /\ \A d \in filters.dateFrom : e.created_at.day >= d
  /\ \A d \in filters.dateTo : e.created_at.day < d + 1

\* filters?.limit || 50
LimitOf(filters) ==
  IF filters.limit = {} \/ filters.limit = Some(0)
    THEN DefaultLimit ELSE ValueOf(filters.limit)

\* filters?.offset || 0
OffsetOf(filters) ==
  IF filters.offset = {} THEN 0 ELSE ValueOf(filters.offset)

\* ORDER BY created_at DESC: the orders the database may return the rows
\* in.  Rows with equal created_at come in any order, and not in the same
\* order for every query.
OrderByCreatedAtDesc(rows) ==
  LET n == Cardinality(rows)
  IN  {s \in [1 .. n -> rows] :
         /\ \A i, j \in 1 .. n : i # j => s[i] # s[j]
         /\ \A i, j \in 1 .. n : i < j => ~Later(s[j].created_at, s[i].created_at)}

\* .range(from, to): the rows at positions from .. to, counted from 0
Range(s, from, to) ==
  IF from + 1 > Len(s) THEN <<>>
  ELSE SubSeq(s, from + 1, IF to + 1 < Len(s) THEN to + 1 ELSE Len(s))

InitQuery ==
  /\ packages = [p \in PackageIds |-> NewPackage(p, "pending")]
  /\ pods = <<>>
  /\ audit_logs = EmptyBag
  /\ reqs = [r \in Requests |-> Idle]
  /\ staff_contacts = InitialContacts
  /\ pod_reference_seq = 0
  /\ pod_references = {}
  /\ audit_entries \in AuditTrails
  /\ pages = <<>>
  /\ InitAccounts
  /\ InitTracker

QueryFrame ==
  UNCHANGED <<packages, pods, audit_logs, reqs, staff_contacts,
              pod_reference_seq, pod_references, audit_entries,
              accountVars, trackerVars>>

\* AuditLogService.loadAuditLogs; filters.search is not set
LoadAuditLogs(filters) ==
  /\ Len(pages) < MaxPages
  /\ LET rows   == {e \in audit_entries : MatchesFilters(e, filters)}
         limit  == LimitOf(filters)
         offset == OffsetOf(filters)
     IN  \E s \in OrderByCreatedAtDesc(rows) :
           pages' = Append(pages, [filters |-> filters,
                                   data |-> Range(s, offset, offset + limit - 1)])
  /\ QueryFrame

QueryNext == \E filters \in QueryFilters : LoadAuditLogs(filters)

SpecQuery == InitQuery /\ [][QueryNext]_vars

\* ---------------------------------------------- specification: collection
\* The staff at the collection point
CollectionCallers == {"u_admin", "u_coll"}

\* Packages received at the collection point, none with a POD
InitCollection ==
  /\ packages = [p \in PackageIds |-> NewPackage(p, "ready_for_collection")]
  /\ pods = <<>>
  /\ audit_logs = EmptyBag
  /\ reqs = [r \in Requests |-> Idle]
  /\ staff_contacts = InitialContacts
  /\ pod_reference_seq = 0
  /\ pod_references = {}
  /\ audit_entries = {}
  /\ pages = <<>>
  /\ InitAccounts
  /\ InitTracker

\* The collection-confirm page, and complete-pod, lock-pod and
\* update-package called on their own
CollectionNext ==
  \/ \E r \in Requests, u \in CollectionCallers, p \in PackageIds :
       ConfirmCollectionUpdate(r, u, p) /\ Frame
  \/ \E r \in Requests : ConfirmCollectionCommit(r) /\ Frame
  \/ \E r \in Requests : ConfirmCollectionCompletePod(r) /\ Frame
  \/ \E r \in Requests : ConfirmCollectionLockPod(r) /\ Frame
  \/ \E r \in Requests, u \in CollectionCallers, p \in PackageIds :
       CompletePodStart(r, u, p) /\ Frame
  \/ \E r \in Requests : CompletePodLookup(r) /\ Frame
  \/ \E r \in Requests : CompletePodInsert(r) /\ Frame
  \/ \E r \in Requests : CompletePodUpdate(r) /\ Frame
  \/ \E r \in Requests : CompletePodCommit(r) /\ Frame
  \/ \E r \in Requests, u \in CollectionCallers, i \in DOMAIN pods, pdf \in BOOLEAN :
       LockPodStart(r, u, pods[i].id, pdf) /\ Frame
  \/ \E r \in Requests : LockPodUpdate(r) /\ Frame
  \/ \E r \in Requests, u \in CollectionCallers, p \in PackageIds, body \in UpdateBodies :
       UpdatePackageStart(r, u, p, body) /\ Frame
  \/ \E r \in Requests : UpdatePackageWrite(r) /\ Frame
  \/ \E r \in Requests : UpdatePackageCommit(r) /\ Frame

SpecCollection == InitCollection /\ [][CollectionNext]_vars

\* ------------------------------------------- specification: audit entries
\* The staff that create and lock PODs
AuditCallers == {"u_admin", "u_coll"}

\* Bodies a signed-in user can send to log-audit: action, entity_type and
\* entity_id are the caller's choice, and entity_id need not name a row
LogAuditBodies ==
  {LogAuditBody(p) : p \in PackageIds}
  \cup {[action |-> "POD_LOCKED", entity_type |-> "pod", entity_id |-> PodId(1)]}

\* complete-pod, lock-pod and log-audit
AuditNext ==
  \/ \E r \in Requests, u \in AuditCallers, p \in PackageIds :
       CompletePodStart(r, u, p) /\ Frame
  \/ \E r \in Requests : CompletePodLookup(r) /\ Frame
  \/ \E r \in Requests : CompletePodInsert(r) /\ Frame
  \/ \E r \in Requests : CompletePodUpdate(r) /\ Frame
  \/ \E r \in Requests : CompletePodCommit(r) /\ Frame
  \/ \E r \in Requests, u \in AuditCallers, i \in DOMAIN pods, pdf \in BOOLEAN :
       LockPodStart(r, u, pods[i].id, pdf) /\ Frame
  \/ \E r \in Requests : LockPodUpdate(r) /\ Frame
  \/ \E r \in Requests, u \in LogAuditCallers, body \in LogAuditBodies :
       LogAudit(r, u, body) /\ Frame

SpecAudit == Init /\ [][AuditNext]_vars

\* ---------------------------------------------- specification: POD locking
\* What a signed-in client may send as an UPDATE on pods, locked_at alone
\* included
ClientPodSets(r) == DirectPodSets(r) \cup {[locked_at |-> Now(r)]}

\* complete-pod, lock-pod, and UPDATEs on pods sent with a user's token
LockNext ==
  \/ \E r \in Requests, u \in AuditCallers, p \in PackageIds :
       CompletePodStart(r, u, p) /\ Frame
  \/ \E r \in Requests : CompletePodLookup(r) /\ Frame
  \/ \E r \in Requests : CompletePodInsert(r) /\ Frame
  \/ \E r \in Requests : CompletePodUpdate(r) /\ Frame
  \/ \E r \in Requests : CompletePodCommit(r) /\ Frame
  \/ \E r \in Requests, u \in AuditCallers, i \in DOMAIN pods, pdf \in BOOLEAN :
       LockPodStart(r, u, pods[i].id, pdf) /\ Frame
  \/ \E r \in Requests : LockPodUpdate(r) /\ Frame
  \/ \E r \in Requests, u \in AuditCallers, i \in DOMAIN pods :
       \E set \in ClientPodSets(r) : DirectPodUpdate(r, u, i, set) /\ Frame

SpecLock == Init /\ [][LockNext]_vars

\* ------------------------------------------------ specification: accounts
\* staff_role enum
StaffRoles == {"warehouse", "driver", "admin", "collection"}

\* The roles a create-staff body names; "manager" is not in the enum
BodyRoles == {"driver", "admin", "manager"}

AdminExists(rows) == \E row \in rows : row.role = "admin"

HasProfile(rows, n) == \E row \in rows : row.user_id = n

\* The IF of create_initial_admin_profile, over the rows its statement
\* sees: those committed when it runs
create_initial_admin_profile(rows, n) == ~AdminExists(rows) /\ ~HasProfile(rows, n)

\* auth.admin.deleteUser without effect
deleteUserSkipped(users, n) == users

\* auth.admin.deleteUser
deleteUser(users, n) == users \ {n}

\* staff_profiles.user_id REFERENCES auth.users ON DELETE CASCADE
CascadeDelete(rows, users) == {row \in rows : row.user_id \in users}

\* A database with no user and no staff profile
InitStaff ==
  /\ packages = [p \in PackageIds |-> NewPackage(p, "pending")]
  /\ pods = <<>>
  /\ audit_logs = EmptyBag
  /\ reqs = [r \in Requests |-> Idle]
  /\ staff_contacts = InitialContacts
  /\ pod_reference_seq = 0
  /\ pod_references = {}
  /\ audit_entries = {}
  /\ pages = <<>>
  /\ auth_users = {}
  /\ staff_rows = {}
  /\ signups = [n \in NewUsers |-> NoSignup]
  /\ InitTracker

StaffFrame ==
  UNCHANGED <<packages, pods, audit_logs, reqs, staff_contacts,
              pod_reference_seq, pod_references, audit_entries, pages,
              trackerVars>>

\* A sign-up: the INSERT into auth.users and its AFTER INSERT trigger, in a
\* transaction that has not committed
Register(n) ==
  /\ signups[n].pc = "idle"
  /\ signups' = [signups EXCEPT ![n] =
                   [NoSignup EXCEPT !.kind = "register", !.pc = "tx",
                      !.autoAdmin = create_initial_admin_profile(staff_rows, n)]]
  /\ UNCHANGED <<auth_users, staff_rows>>
  /\ StaffFrame

\* The commit of the transaction that inserted the user
CommitUser(n) ==
  LET rec == signups[n]
  IN  /\ rec.pc = "tx"
      /\ auth_users' = auth_users \cup {n}
      /\ staff_rows' = IF rec.autoAdmin
                         THEN staff_rows \cup {StaffRow(n, "admin", NULL)}
                         ELSE staff_rows
      /\ signups' = [signups EXCEPT ![n] =
                       IF rec.kind = "register"
                         THEN [rec EXCEPT !.pc = "done", !.result = "registered"]
                         ELSE [rec EXCEPT !.pc = "cs_insert"]]
      /\ StaffFrame

\* create-staff up to listUsers: the caller's role, the existing user
CreateStaffStart(c, n, role) ==
  LET rec == [NoSignup EXCEPT !.kind = "create-staff", !.caller = c, !.role = role]
      err == IF ~(\E row \in staff_rows : row.user_id = c /\ row.role = "admin")
               THEN "Only admins can create staff profiles"
             ELSE IF n \in auth_users
               THEN "A user with this email already exists"
             ELSE NULL
  IN  /\ signups[n].pc = "idle"
      /\ c \in auth_users
      /\ signups' = [signups EXCEPT ![n] =
                       IF err # NULL THEN [rec EXCEPT !.pc = "done", !.result = err]
                       ELSE [rec EXCEPT !.pc = "cs_create"]]
      /\ UNCHANGED <<auth_users, staff_rows>>
      /\ StaffFrame

\* auth.admin.createUser: the same INSERT and trigger as a sign-up
CreateStaffCreateUser(n) ==
  LET rec == signups[n]
  IN  /\ rec.pc = "cs_create"
      /\ signups' = [signups EXCEPT ![n] =
                       IF n \in auth_users
                         THEN [rec EXCEPT !.pc = "done", !.result = "Failed to create user"]
                         ELSE [rec EXCEPT !.pc = "tx",
                                 !.autoAdmin = create_initial_admin_profile(staff_rows, n)]]
      /\ UNCHANGED <<auth_users, staff_rows>>
      /\ StaffFrame

\* The INSERT into staff_profiles and, when it fails, deleteUser
CreateStaffInsert(n) ==
  LET rec  == signups[n]
      fail == HasProfile(staff_rows, n) \/ rec.role \notin StaffRoles
      left == deleteUser(auth_users, n)
  IN  /\ rec.pc = "cs_insert"
      /\ IF fail
           THEN /\ auth_users' = left
                /\ staff_rows' = CascadeDelete(staff_rows, left)
                /\ signups' = [signups EXCEPT ![n] =
                                 [rec EXCEPT !.pc = "done",
                                             !.result = "Failed to create profile"]]
           ELSE /\ auth_users' = auth_users
                /\ staff_rows' = staff_rows \cup {StaffRow(n, rec.role, rec.caller)}
                /\ signups' = [signups EXCEPT ![n] =
                                 [rec EXCEPT !.pc = "done", !.result = "200"]]
      /\ StaffFrame

StaffNext ==
  \/ \E n \in NewUsers : Register(n)
  \/ \E n \in NewUsers : CommitUser(n)
  \/ \E c \in NewUsers, n \in NewUsers, role \in BodyRoles : CreateStaffStart(c, n, role)
  \/ \E n \in NewUsers : CreateStaffCreateUser(n)
  \/ \E n \in NewUsers : CreateStaffInsert(n)

SpecStaff == InitStaff /\ [][StaffNext]_vars

\* ------------------------------------------ specification: driver tracker
\* Number of startTracking calls in one behaviour
MaxStarts == 4

\* Handles navigator.geolocation.watchPosition and setInterval return
WatchIds == {"w" \o ToString(k) : k \in 1 .. MaxStarts}
TimerIds == {"i" \o ToString(k) : k \in 1 .. MaxStarts}

\* A handle the browser has not in use
Fresh(ids, active) == CHOOSE h \in ids \ active : TRUE

TrackerFrame ==
  UNCHANGED <<packages, pods, audit_logs, reqs, staff_contacts,
              pod_reference_seq, pod_references, audit_entries, pages,
              accountVars>>

\* startTracking up to getCurrentPosition: without the driver role or
\* without geolocation it returns an error, otherwise the browser is asked
\* for the position and the rest runs in its callback
StartTracking(allowed) ==
  /\ starts < MaxStarts
  /\ starts' = starts + 1
  /\ pendingPositions' = IF allowed THEN pendingPositions + 1 ELSE pendingPositions
  /\ UNCHANGED <<tracking, errorSubject, watchId, updateInterval, watches, timers>>
  /\ TrackerFrame

\* The success callback of getCurrentPosition: watchPosition, setInterval,
\* tracking = true
PositionSuccess ==
  LET w == Fresh(WatchIds, watches)
      i == Fresh(TimerIds, timers)
  IN  /\ pendingPositions > 0
      /\ pendingPositions' = pendingPositions - 1
      /\ watchId' = w
      /\ watches' = watches \cup {w}
      /\ updateInterval' = i
      /\ timers' = timers \cup {i}
      /\ tracking' = TRUE
      /\ errorSubject' = NULL
      /\ UNCHANGED starts
      /\ TrackerFrame

\* The error callback of getCurrentPosition
PositionError ==
  /\ pendingPositions > 0
  /\ pendingPositions' = pendingPositions - 1
  /\ errorSubject' = "geolocation error"
  /\ UNCHANGED <<tracking, watchId, updateInterval, watches, timers, starts>>
  /\ TrackerFrame

\* stopTracking: clearWatch and clearInterval of the handles the service
\* holds, tracking = false
StopTracking ==
  /\ watches' = IF watchId # NULL THEN watches \ {watchId} ELSE watches
  /\ watchId' = NULL
  /\ timers' = IF updateInterval # NULL THEN timers \ {updateInterval} ELSE timers
  /\ updateInterval' = NULL
  /\ tracking' = FALSE
  /\ UNCHANGED <<errorSubject, pendingPositions, starts>>
  /\ TrackerFrame

TrackerNext ==
  \/ \E allowed \in BOOLEAN : StartTracking(allowed)
  \/ PositionSuccess
  \/ PositionError
  \/ StopTracking

SpecTracker == Init /\ [][TrackerNext]_vars

\* ================================================================ properties
Done(r) == reqs[r].pc = "done"

\* ------------------------------------------------------------------------ C1
\* C1: in every reachable state each package has at most one POD, whatever
\* the interleaving of complete-pod requests for it.
C1_AtMostOnePodPerPackage ==
  \A p \in PackageIds : Cardinality(PodsOf(p)) <= 1

\* Two complete-pod requests for one package both passed the duplicate
\* lookup; one inserted the POD, the INSERT of the other was refused
C1_Witness ==
  \E r1, r2 \in Requests :
    /\ r1 # r2
    /\ reqs[r1].pkg = reqs[r2].pkg
    /\ reqs[r1].kind = "complete-pod" /\ reqs[r1].pod # NULL
    /\ reqs[r2].kind = "complete-pod" /\ reqs[r2].result = "Failed to create POD"

\* ------------------------------------------------------------------------ C2
\* C2: a POD that is locked stays locked, and every one of its fields keeps
\* its value, in every step, whoever the caller and whatever the operation.
C2_LockedPodImmutable ==
  [][\A i \in DOMAIN pods :
       pods[i].is_locked => (i \in DOMAIN pods' /\ pods'[i] = pods[i])]_vars

\* An active caller's UPDATE on a locked POD has been refused
C2_Witness ==
  \E r \in Requests :
    /\ reqs[r].kind = "pods-update" /\ Done(r)
    /\ ActiveStaff(reqs[r].caller)
    /\ reqs[r].result # "200"
    /\ pods[PodIndex(reqs[r].pod)].is_locked

\* ------------------------------------------------------------------------ C3
\* C3: an update-package or driver-pickup request that finds the package's
\* POD locked, when it arrives or when its UPDATE runs, is rejected and
\* writes nothing to the package.
C3_LockedPackageMutationRejected ==
  \A r \in Requests :
    (/\ reqs[r].kind \in {"update-package", "driver-pickup"}
     /\ (reqs[r].lockedAtStart \/ reqs[r].lockedAtWrite))
    => /\ reqs[r].pc \notin {"up_commit", "dp_commit"}
       /\ ~reqs[r].applied
       /\ reqs[r].result # "200"

\* An update-package request read the POD unlocked, the lock was committed,
\* and the UPDATE it then issued was refused
C3_Witness ==
  \E r \in Requests :
    /\ reqs[r].kind = "update-package" /\ Done(r)
    /\ ~reqs[r].lockedAtStart /\ reqs[r].lockedAtWrite
    /\ reqs[r].result = "Failed to update package"
    /\ ~reqs[r].applied

\* ------------------------------------------------------------------------ C4
\* A lock-pod request that read the POD unlocked and has issued its UPDATE
LockWrote(r) ==
  /\ reqs[r].kind = "lock-pod" /\ Done(r)
  /\ reqs[r].result \in {"200", "POD was already locked", "Failed to lock POD"}

C5_RaceLoserGetsDuplicate ==
  \A r \in Requests :
    (reqs[r].kind = "complete-pod" /\ Done(r))
    => reqs[r].result # "Failed to create POD"

\* ------------------------------------------------------------------------ C6
\* The status graph of the specification
StatusEdges ==
  {<<"pending", "in_transit">>, <<"notified", "in_transit">>,
   <<"in_transit", "ready_for_collection">>,
   <<"ready_for_collection", "collected">>,
   <<"pending", "returned">>, <<"notified", "returned">>,
   <<"ready_for_collection", "returned">>}

\* C6: every change of a package's status, by whichever operation, follows
\* an edge of the status graph.
C6_StatusWalksGraph ==
  [][\A p \in PackageIds :
       \/ packages'[p].status = packages[p].status
       \/ <<packages[p].status, packages'[p].status>> \in StatusEdges]_vars

\* ------------------------------------------------------------------------ C7
\* A lock-pod request has locked the POD of package p
LockCommitted(p) ==
  \E l \in Requests :
    reqs[l].kind = "lock-pod" /\ reqs[l].pkg = p /\ reqs[l].result = "200"

\* C7: no update-package or driver-pickup request writes the package row
\* once a lock-pod request has committed the lock of the package's POD.
C7_NoMutationAfterLock ==
  [][\A r \in Requests :
       (/\ reqs[r].kind \in {"update-package", "driver-pickup"}
        /\ packages'[reqs[r].pkg] # packages[reqs[r].pkg]
        /\ reqs'[r] # reqs[r])
       => ~LockCommitted(reqs[r].pkg)]_vars

\* ------------------------------------------------------------------------ C8
\* C8: in the state in which complete-pod answers 201, the package has an
\* unlocked POD and is collected, with collected_by the caller; PODs being
\* written by complete-pod and lock-pod requests only.
C8_SuccessMeansCollected ==
  [][\A r \in Requests :
       (/\ reqs[r].kind = "complete-pod"
        /\ reqs[r].result # "201"
        /\ reqs'[r].result = "201"
        /\ \A d \in Requests : reqs[d].kind # "pods-update")
       => /\ \E i \in DOMAIN pods' :
               pods'[i].package_id = reqs[r].pkg /\ ~pods'[i].is_locked
          /\ packages'[reqs[r].pkg].status = "collected"
          /\ packages'[reqs[r].pkg].collected_by = reqs[r].caller]_vars

\* ------------------------------------------------------------------------ C9
\* C9: in every reachable state a package that is collected has a POD.
C9_CollectedHasPod ==
  \A p \in PackageIds : packages[p].status = "collected" => PodsOf(p) # {}

\* ----------------------------------------------------------------------- C10
\* C10: once a package is collected or returned, no step changes its
\* status.
C10_TerminalStatuses ==
  [][\A p \in PackageIds :
       packages[p].status \in {"collected", "returned"}
       => packages'[p].status = packages[p].status]_vars

\* ----------------------------------------------------------------------- C11
\* C11: the audit log is append-only: no step of any request, by any role,
\* changes or removes an entry that is in audit_logs; every entry of the
\* table is still there, as often, after the step.
C11_AuditAppendOnly == [][audit_logs \sqsubseteq audit_logs']_vars

\* An active admin sent an UPDATE and a DELETE on audit_logs while the table
\* had rows, and both statements left it as it was.
C11_Witness ==
  \E r1, r2 \in Requests :
    /\ reqs[r1].kind = "audit-update" /\ reqs[r2].kind = "audit-delete"
    /\ \A r \in {r1, r2} :
         /\ Done(r) /\ reqs[r].caller = "u_admin"
         /\ reqs[r].matched /\ ~reqs[r].applied
    /\ audit_logs # EmptyBag

\* ----------------------------------------------------------------------- C12
\* C12: a POD, once created, exists forever: no step of any request, by any
\* role, the admin included, removes a row from pods.
C12_PodNeverDeleted ==
  [][\A i \in DOMAIN pods : \E j \in DOMAIN pods' : pods'[j].id = pods[i].id]_vars

\* An active admin sent a DELETE for a POD; the statement removed nothing
\* and the POD is still in the table.
C12_Witness ==
  \E r \in Requests :
    /\ reqs[r].kind = "pods-delete" /\ Done(r)
    /\ reqs[r].caller = "u_admin" /\ ~reqs[r].applied
    /\ \E i \in DOMAIN pods : pods[i].id = reqs[r].pod

\* ----------------------------------------------------------------------- C13
\* The number of entries of an audit log that carry an action for an entity
AuditCount(log, action, id) ==
  LET rows == {row \in BagToSet(log) : row.action = action /\ row.entity_id = id}
  IN  BagCardinality([row \in rows |-> log[row]])

\* The number of entries of an audit log that refer to an entity
AuditFor(log, id) ==
  LET rows == {row \in BagToSet(log) : row.entity_id = id}
  IN  BagCardinality([row \in rows |-> log[row]])

HandlerKinds == {"driver-pickup", "update-package", "complete-pod", "lock-pod"}

C15_DoubleLockAudited ==
  [][\A r \in Requests :
       (/\ reqs'[r].kind = "lock-pod"
        /\ reqs[r].result = NULL
        /\ reqs'[r].result \in {"POD already locked", "POD was already locked"}
        /\ \A d \in Requests : reqs[d].kind # "pods-update")
       => /\ pods' = pods
          /\ AuditFor(audit_logs', reqs'[r].pod) > AuditFor(audit_logs, reqs'[r].pod)]_vars

\* ----------------------------------------------------------------------- C16
\* The answers, with status 403, to a caller whose role or identity does
\* not allow the request
ForbiddenResults ==
  {"Unauthorized to lock this POD", "Insufficient permissions to complete PODs",
   "Only drivers and admins can pick up packages",
   "Insufficient permissions to update packages"}

\* C16: the step that rejects a request of an edge function as forbidden
\* for the caller's role or identity adds an audit entry.
C16_ForbiddenAudited ==
  [][\A r \in Requests :
       (/\ reqs'[r].kind \in HandlerKinds
        /\ reqs[r].result = NULL
        /\ reqs'[r].result \in ForbiddenResults)
       => BagCardinality(audit_logs') > BagCardinality(audit_logs)]_vars

\* ----------------------------------------------------------------------- C17
\* C17: when the UPDATE of an edge function was aborted by the trigger that
\* protects a package with a locked POD (locked by lock-pod), the audit log
\* holds a
\* PACKAGE_MODIFICATION_DENIED entry for that package.
C17_DeniedAttemptAudited ==
  \A r \in Requests :
    (/\ reqs[r].kind \in HandlerKinds /\ Done(r)
     /\ reqs[r].lockedAtWrite /\ ~reqs[r].applied
     /\ \A d \in Requests : reqs[d].kind # "pods-update")
    => AuditCount(audit_logs, "PACKAGE_MODIFICATION_DENIED", reqs[r].pkg) >= 1

AllowedRoles(status) ==
  CASE status = "in_transit"           -> {"driver", "admin"}
    [] status = "ready_for_collection" -> {"collection", "admin"}
    [] status = "collected"            -> {"collection", "warehouse", "admin"}
    [] status = "returned"             -> {"admin"}
    [] OTHER                           -> {"admin", "collection", "warehouse", "driver"}

\* C19: when a step of an edge function changes the status of a package,
\* the caller of the request is active staff whose role is allowed for the
\* transition to the new status.
C19_RoleAllowedForTransition ==
  [][\A r \in Requests, p \in PackageIds :
       (/\ reqs'[r] # reqs[r]
        /\ reqs'[r].kind \in HandlerKinds
        /\ packages'[p].status # packages[p].status)
       => /\ ActiveStaff(reqs'[r].caller)
          /\ RoleOf(reqs'[r].caller) \in AllowedRoles(packages'[p].status)]_vars

\* ----------------------------------------------------------------------- C20
\* C20: an update-package or driver-pickup request of an active staff
\* member that arrives when the package has a locked POD is answered
\* "Package is locked", whatever the caller's role and the requested status.
C20_LockedBeforeRole ==
  \A r \in Requests :
    (/\ reqs[r].kind \in {"update-package", "driver-pickup"} /\ Done(r)
     /\ ActiveStaff(reqs[r].caller)
     /\ reqs[r].lockedAtStart
     /\ \A d \in Requests : reqs[d].kind # "pods-update")
    => reqs[r].result = "Package is locked"

\* ----------------------------------------------------------------------- C21
\* The answers of a request that wrote what it was asked to write
SuccessResults == {"200", "201"}

\* C21: a request of an edge function that writes state (complete-pod,
\* lock-pod, driver-pickup, update-package, log-audit) is answered with
\* success only when its caller has a staff profile with is_active = true.
C21_InactiveNeverSucceeds ==
  \A r \in Requests :
    (/\ reqs[r].kind \in HandlerKinds \cup {"log-audit"}
     /\ Done(r) /\ reqs[r].result \in SuccessResults)
    => ActiveStaff(reqs[r].caller)

\* ----------------------------------------------------------------------- C22
\* The caller is the staff member who created the POD, or an admin
CreatorOrAdmin(u, pod) ==
  pod.staff_id = staff_profiles[u].id \/ RoleOf(u) = "admin"

\* C22: the step that locks a POD for a lock-pod request has a caller who
\* created the POD or is an admin; and the step that receives a lock-pod
\* request of any other active caller for an unlocked POD rejects it and
\* leaves pods as it is.
C22_OnlyCreatorOrAdminLocks ==
  [][\A r \in Requests :
       /\ (/\ reqs'[r].kind = "lock-pod"
           /\ reqs[r].result # "200" /\ reqs'[r].result = "200")
          => LET pod == pods[PodIndex(reqs'[r].pod)]
             IN  /\ ~pod.is_locked
                 /\ pods'[PodIndex(reqs'[r].pod)].is_locked
                 /\ CreatorOrAdmin(reqs'[r].caller, pod)
       /\ (/\ reqs'[r].kind = "lock-pod"
           /\ reqs[r].pc \in {"idle", "lp_start"}
           /\ ActiveStaff(reqs'[r].caller)
           /\ ~pods[PodIndex(reqs'[r].pod)].is_locked
           /\ ~CreatorOrAdmin(reqs'[r].caller, pods[PodIndex(reqs'[r].pod)]))
          => /\ reqs'[r].result = "Unauthorized to lock this POD"
             /\ pods' = pods]_vars

\* An active staff member who is neither the creator nor an admin asked to
\* lock an unlocked POD and was rejected, and the POD is still unlocked.
C22_Witness ==
  \E r \in Requests :
    /\ reqs[r].kind = "lock-pod" /\ Done(r)
    /\ reqs[r].result = "Unauthorized to lock this POD"
    /\ ActiveStaff(reqs[r].caller)
    /\ ~CreatorOrAdmin(reqs[r].caller, pods[PodIndex(reqs[r].pod)])
    /\ ~pods[PodIndex(reqs[r].pod)].is_locked

\* ----------------------------------------------------------------------- C23
\* C23: a driver-pickup request passes its status check only when it reads
\* the package as pending or notified; the step that answers it with
\* success writes status = in_transit, picked_up_by = the caller and
\* picked_up_at together; and a driver-pickup request of a driver or admin
\* that arrives when the package is no longer pending or notified (after a
\* successful pickup, say) is answered "Invalid package status for pickup"
\* and changes nothing.
C23_PickupOnlyFromPendingOrNotified ==
  [][\A r \in Requests :
       LET p == reqs'[r].pkg
       IN  /\ (reqs[r].pc = "idle" /\ reqs'[r].pc = "dp_update")
              => packages[p].status \in {"pending", "notified"}
           /\ (/\ reqs'[r].kind = "driver-pickup"
               /\ reqs[r].result # "200" /\ reqs'[r].result = "200")
              => /\ packages'[p].status = "in_transit"
                 /\ packages'[p].picked_up_by = reqs'[r].caller
                 /\ packages'[p].picked_up_at = Now(r)
           /\ (/\ reqs[r].pc = "idle" /\ reqs'[r].kind = "driver-pickup"
               /\ ActiveStaff(reqs'[r].caller)
               /\ RoleOf(reqs'[r].caller) \in {"driver", "admin"}
               /\ packages[p].status \notin {"pending", "notified"})
              => /\ reqs'[r].result = "Invalid package status for pickup"
                 /\ UNCHANGED <<packages, pods, audit_logs>>]_vars

\* One pickup succeeded; a second one, issued by a driver when the first
\* had been answered, was rejected; the package is as the first left it.
C23_Witness ==
  \E r1, r2 \in Requests :
    /\ r1 < r2
    /\ reqs[r1].kind = "driver-pickup" /\ reqs[r1].result = "200"
    /\ reqs[r2].kind = "driver-pickup" /\ reqs[r2].pkg = reqs[r1].pkg
    /\ reqs[r2].caller = "u_driver"
    /\ reqs[r2].result = "Invalid package status for pickup"
    /\ LET pkg == packages[reqs[r1].pkg]
       IN  /\ pkg.status = "in_transit"
           /\ pkg.picked_up_by = reqs[r1].caller
           /\ pkg.picked_up_at = Now(r1)

\* ----------------------------------------------------------------------- C24
\* C24: when complete-pod, called by staff allowed to complete PODs, looks
\* for the POD of a package that already has one, the request is answered
\* "POD already exists for this package", pods and packages are unchanged,
\* and exactly one entry, POD_DUPLICATE_ATTEMPT for the package, is added
\* to the audit log.
C24_DuplicatePodRejected ==
  [][\A r \in Requests :
       (/\ reqs[r].kind = "complete-pod" /\ reqs[r].pc = "cp_lookup"
        /\ reqs'[r] # reqs[r]
        /\ PodsOf(reqs[r].pkg) # {})
       => /\ reqs'[r].result = "POD already exists for this package"
          /\ UNCHANGED <<pods, packages>>
          /\ BagCardinality(audit_logs') = BagCardinality(audit_logs) + 1
          /\ AuditCount(audit_logs', "POD_DUPLICATE_ATTEMPT", reqs[r].pkg)
               = AuditCount(audit_logs, "POD_DUPLICATE_ATTEMPT", reqs[r].pkg) + 1]_vars

\* A complete-pod request created the POD of a package and was answered;
\* a later one for the same package was answered with the duplicate error,
\* and the package still has that one POD.
C24_Witness ==
  \E r1, r2 \in Requests :
    /\ r1 < r2 /\ reqs[r1].pkg = reqs[r2].pkg
    /\ reqs[r1].kind = "complete-pod" /\ reqs[r1].result = "201"
    /\ reqs[r2].kind = "complete-pod"
    /\ reqs[r2].result = "POD already exists for this package"
    /\ Cardinality(PodsOf(reqs[r1].pkg)) = 1
    /\ AuditCount(audit_logs, "POD_DUPLICATE_ATTEMPT", reqs[r1].pkg) = 1

\* ----------------------------------------------------------------------- C25
\* The fields a POD copies from its package and from its creator
SnapshotOf(pod) ==
  [package_reference |-> pod.package_reference, receiver_email |-> pod.receiver_email,
   staff_name |-> pod.staff_name, staff_email |-> pod.staff_email]

C26_LockWritesOnlyItsFields ==
  [][\A r \in Requests :
       (/\ reqs'[r].kind = "lock-pod"
        /\ reqs[r].result # "200" /\ reqs'[r].result = "200")
       => LET i   == PodIndex(reqs[r].pod)
              old == pods[i]
              loc == [old EXCEPT !.is_locked = TRUE, !.locked_at = Now(r)]
          IN  pods' = [pods EXCEPT ![i] =
                         IF reqs[r].hasPdf
                           THEN [loc EXCEPT !.pdf_url = PdfUrl(r),
                                            !.pdf_path = PdfPath(r),
                                            !.pdf_generated_at = Now(r)]
                           ELSE loc]]_vars

\* A lock-pod request without pdf_url locked a POD whose pdf_url a client
\* had set before, and the POD still has that pdf_url.
C26_Witness ==
  \E r \in Requests :
    /\ reqs[r].kind = "lock-pod" /\ reqs[r].result = "200" /\ ~reqs[r].hasPdf
    /\ LET pod == pods[PodIndex(reqs[r].pod)]
       IN  /\ pod.is_locked /\ pod.locked_at = Now(r)
           /\ pod.pdf_url # NULL /\ pod.pdf_url # PdfUrl(r)

\* ----------------------------------------------------------------------- C27
\* C27: no INSERT on pods draws a sequence value whose generated reference
\* a POD already has, so no INSERT fails on the reference, whatever the
\* number of digits of the sequence value.
C27_ReferenceNeverTaken ==
  [][pod_reference_seq' # pod_reference_seq
       => generate_pod_reference(pod_reference_seq') \notin pod_references]_vars

\* ----------------------------------------------------------------------- C28
\* Two loaded pages are successive: same filters and limit, the second
\* starting where the first ends
Successive(a, b) ==
  /\ [a.filters EXCEPT !.offset = {}] = [b.filters EXCEPT !.offset = {}]
  /\ OffsetOf(b.filters) = OffsetOf(a.filters) + LimitOf(a.filters)

Rows(page) == {page.data[k] : k \in DOMAIN page.data}

\* C28: two successive pages of an audit query share no entry, and when the
\* first starts at offset 0 and the filtered log has at most two pages of
\* entries, every entry of the filtered log is on one of them.
C28_PagesPartitionLog ==
  \A i, j \in DOMAIN pages :
    Successive(pages[i], pages[j])
    => /\ Rows(pages[i]) \cap Rows(pages[j]) = {}
       /\ LET rows == {e \in audit_entries : MatchesFilters(e, pages[i].filters)}
          IN  (/\ OffsetOf(pages[i].filters) = 0
               /\ Cardinality(rows) <= 2 * LimitOf(pages[i].filters))
              => rows \subseteq Rows(pages[i]) \cup Rows(pages[j])

\* ----------------------------------------------------------------------- C29
\* C29: when a confirmation on the collection-confirm page has written
\* status = collected on a package that was ready for collection and has
\* gone on to its complete-pod call, and the flow has ended, the package has
\* a POD.
C29_ConfirmedCollectionHasPod ==
  \A r \in Requests :
    (/\ reqs[r].ui /\ Done(r)
     /\ reqs[r].kind \in {"complete-pod", "lock-pod"})
    => PodsOf(reqs[r].pkg) # {}

\* ----------------------------------------------------------------------- C30
\* C30: no driver-pickup request is answered with success by a step that
\* finds the package already picked up (in_transit, with picked_up_by
\* set): of the requests that read the package as pending or notified
\* before any of them wrote, only the first to write succeeds.
C30_PickupAppliedOnce ==
  [][\A r \in Requests :
       (/\ reqs'[r].kind = "driver-pickup"
        /\ reqs[r].result # "200" /\ reqs'[r].result = "200")
       => ~(/\ packages[reqs[r].pkg].status = "in_transit"
            /\ packages[reqs[r].pkg].picked_up_by # NULL)]_vars

\* ----------------------------------------------------------------------- C31
\* C31: a step that adds a PACKAGE_COLLECTED entry for a package is the
\* step of a complete-pod request that sets that package to collected,
\* with the request's POD and caller; when the UPDATE of complete-pod
\* fails, no such entry is added.
C31_CollectedEntryOnlyWithUpdate ==
  [][\A p \in PackageIds :
       AuditCount(audit_logs', "PACKAGE_COLLECTED", p)
         > AuditCount(audit_logs, "PACKAGE_COLLECTED", p)
       => \E r \in Requests :
            /\ reqs'[r].kind = "complete-pod" /\ reqs'[r].pkg = p
            /\ reqs[r].result # "201" /\ reqs'[r].result = "201"
            /\ packages'[p] # packages[p]
            /\ packages'[p].status = "collected"
            /\ packages'[p].pod_id = reqs'[r].pod
            /\ packages'[p].collected_by = reqs'[r].caller]_vars

\* ----------------------------------------------------------------------- C32
\* C32: in every reachable state, every POD_LOCKED entry of the audit log
\* names a POD that exists and is locked.
C32_PodLockedEntryMeansLocked ==
  \A row \in BagToSet(audit_logs) :
    row.action = "POD_LOCKED"
    => \E i \in DOMAIN pods : pods[i].id = row.entity_id /\ pods[i].is_locked

\* ----------------------------------------------------------------------- C33
\* C33: after every step, each POD has locked_at set exactly when it is
\* locked, and a locked_at that was set before the step is unchanged.
C33_LockedAtFollowsLock ==
  [][\A i \in DOMAIN pods' :
       /\ (pods'[i].locked_at # NULL) <=> pods'[i].is_locked
       /\ (i \in DOMAIN pods /\ pods[i].locked_at # NULL)
            => pods'[i].locked_at = pods[i].locked_at]_vars

\* ----------------------------------------------------------------------- C34
\* C34: in every reachable state at most one staff profile is an admin
\* profile created by the bootstrap trigger (created_by is NULL), however
\* the registrations interleave.
C34_OneBootstrapAdmin ==
  Cardinality({row \in staff_rows : row.role = "admin" /\ row.created_by = NULL}) <= 1

C36_ValidatedPickupSucceeds ==
  \A r \in Requests :
    (/\ reqs[r].kind = "driver-pickup" /\ Done(r)
     /\ reqs[r].result \notin {"Staff profile not found", "Staff account is deactivated",
                                "Only drivers and admins can pick up packages",
                                "Invalid package status for pickup"})
    => reqs[r].result = "200"

\* C36: the step that answers a driver-pickup request with success leaves
\* the package in_transit and adds exactly one PACKAGE_PICKED_UP entry for
\* it, whatever became of the e-mail, and adds one
\* PACKAGE_IN_TRANSIT_NOTIFICATION entry when the response says email_sent
\* and none otherwise.
C36_PickupIndependentOfEmail ==
  [][\A r \in Requests :
       (/\ reqs'[r].kind = "driver-pickup"
        /\ reqs[r].result # "200" /\ reqs'[r].result = "200")
       => LET p == reqs'[r].pkg
          IN  /\ packages'[p].status = "in_transit"
              /\ AuditCount(audit_logs', "PACKAGE_PICKED_UP", p)
                   = AuditCount(audit_logs, "PACKAGE_PICKED_UP", p) + 1
              /\ AuditCount(audit_logs', "PACKAGE_IN_TRANSIT_NOTIFICATION", p)
                   = AuditCount(audit_logs, "PACKAGE_IN_TRANSIT_NOTIFICATION", p)
                     + (IF reqs'[r].email_sent THEN 1 ELSE 0)]_vars

\* A pickup was answered with success although its e-mail was not sent:
\* the package is in_transit, the log holds the pickup entry and no
\* notification entry.
C36_Witness ==
  \E r \in Requests :
    /\ reqs[r].kind = "driver-pickup" /\ reqs[r].result = "200" /\ ~reqs[r].email_sent
    /\ packages[reqs[r].pkg].status = "in_transit"
    /\ AuditCount(audit_logs, "PACKAGE_PICKED_UP", reqs[r].pkg) = 1
    /\ AuditCount(audit_logs, "PACKAGE_IN_TRANSIT_NOTIFICATION", reqs[r].pkg) = 0

\* ----------------------------------------------------------------------- C37
\* C37: in every reachable state of the tracker at most one interval timer
\* and at most one position watch are active, and when tracking is false
\* none is active.
C37_OneTimerOneWatch ==
  /\ Cardinality(timers) <= 1
  /\ Cardinality(watches) <= 1
  /\ ~tracking => (timers = {} /\ watches = {})

====
